---------------------------- MODULE Spec2Model ----------------------------
(***************************************************************************)
(* Model of two numeric components of KStars/Ekos:                         *)
(*                                                                         *)
(*   RotatorUtils (kstars/ekos/auxiliary/rotatorutils.cpp): conversion     *)
(*   between the rotator's circular angle and the camera position angle,   *)
(*   with the calibration offset and the pier-side flip flag, the flag     *)
(*   being set by the handler of the mount's pierSideChanged signal.       *)
(*                                                                         *)
(*   PoleAxis (kstars/ekos/align/poleaxis.cpp): the normal of the plane    *)
(*   through three points of the unit sphere.                              *)
(*                                                                         *)
(* Angles are whole degrees and vector components are integers: the        *)
(* arithmetic of the model is exact, the rounding of double and float is   *)
(* not modelled.  A vector divided by a length that is a square root is    *)
(* kept as the pair (numerator vector, squared length).                    *)
(***************************************************************************)
EXTENDS Integers, Sequences, FiniteSets

VARIABLES
    m_Offset,        \* RotatorUtils::m_Offset, degrees
    m_flippedMount,  \* RotatorUtils::m_flippedMount
    m_CalPierside,   \* RotatorUtils::m_CalPierside
    m_ImgPierside,   \* RotatorUtils::m_ImgPierside
    connected,       \* m_Mount was non-null in initRotatorUtils: the handler is connected
    pAOffset,        \* the persisted option Options::pAOffset
    pending,         \* pierSideChanged signals emitted and not yet handled
    lastSide,        \* the Side of the signal handled last, "none" before any
    call,            \* the RotatorUtils operation executed last, with its result
    calib,           \* the calibration in force: measured pair and its offset
    pin,             \* the arguments the PoleAxis caller holds
    pcall            \* the PoleAxis operation executed last, with its result

vars == <<m_Offset, m_flippedMount, m_CalPierside, m_ImgPierside,
          connected, pAOffset, pending, lastSide, call, calib, pin, pcall>>

---------------------------------------------------------------------------
(* Bounds and input sets *)

\* pierSideChanged signals in flight at most
MaxPending == 1

\* whole turns added to or taken from a rotator angle given out of range
MaxTurns == 1

\* vector components range over -1 .. MaxCoord
MaxCoord == 1

FullCircle == 360

HalfCircle == 180

PierSides == {"PIER_UNKNOWN", "PIER_WEST", "PIER_EAST"}

\* rotator angles in the circular range [0,360)
InRange == {0, 180, 200}

\* rotator angles as a caller may pass them, in range or not
RotatorAngles ==
    InRange \cup {a + FullCircle * k : a \in {0, 200}, k \in 1..MaxTurns}
            \cup {90 - FullCircle * k : k \in 1..MaxTurns}

\* position angles in (-180,180]
PositionAngles == {-150, 180}

\* calibration offsets as stored in the options
Offsets == {10, 180}

\* differences in [0,360)
Diffs == {0, 180, 270, 359}

---------------------------------------------------------------------------
(* KSUtils normalisation *)

Fmod(r, m) == IF r >= 0 THEN r % m ELSE 0 - ((0 - r) % m)

range360(r) ==
    LET res == Fmod(r, FullCircle)
    IN  IF res < 0 THEN res + FullCircle ELSE res

RECURSIVE rangePA(_)
rangePA(pa) ==
    IF pa > HalfCircle THEN rangePA(pa - FullCircle)
    ELSE IF pa <= 0 - HalfCircle THEN rangePA(pa + FullCircle)
    ELSE pa

---------------------------------------------------------------------------
(* RotatorUtils: the functions, reading the object's state *)

\* faulty variant: the 180 degrees of a flipped mount are not added
calcRotatorAngle_NoFlip(PositionAngle) ==
    range360(PositionAngle - m_Offset)

calcRotatorAngle(PositionAngle) ==
    LET pa == IF m_flippedMount THEN PositionAngle + HalfCircle ELSE PositionAngle
    IN  range360(pa - m_Offset)

\* faulty variant: the result is not normalised by rangePA
calcCameraAngle_NoRange(RotatorAngle, flippedImage) ==
    LET pa0 == IF RotatorAngle > HalfCircle
               THEN (RotatorAngle - FullCircle) + m_Offset
               ELSE RotatorAngle + m_Offset
    IN  IF (~m_flippedMount) # (~flippedImage)
        THEN IF pa0 > 0 THEN pa0 - HalfCircle ELSE pa0 + HalfCircle
        ELSE pa0

calcCameraAngle(RotatorAngle, flippedImage) ==
    LET pa0 == IF RotatorAngle > HalfCircle
               THEN (RotatorAngle - FullCircle) + m_Offset
               ELSE RotatorAngle + m_Offset
        pa1 == IF (~m_flippedMount) # (~flippedImage)
               THEN IF pa0 > 0 THEN pa0 - HalfCircle ELSE pa0 + HalfCircle
               ELSE pa0
    IN  rangePA(pa1)

\* faulty variant: the 180 degrees of a flipped mount are not subtracted
calcOffsetAngle_NoFlip(RotatorAngle, PositionAngle) ==
    rangePA(IF RotatorAngle > HalfCircle
            THEN PositionAngle - (RotatorAngle - FullCircle)
            ELSE PositionAngle - RotatorAngle)

calcOffsetAngle(RotatorAngle, PositionAngle) ==
    LET o0 == IF RotatorAngle > HalfCircle
              THEN PositionAngle - (RotatorAngle - FullCircle)
              ELSE PositionAngle - RotatorAngle
        o1 == IF m_flippedMount THEN o0 - HalfCircle ELSE o0
    IN  rangePA(o1)

\* faulty variant: guards on the calibration pier side and XORs the flag itself
checkImageFlip_CalGuard ==
    IF m_CalPierside # "PIER_UNKNOWN"
    THEN IF m_flippedMount # (m_ImgPierside = m_CalPierside) THEN TRUE ELSE FALSE
    ELSE FALSE

checkImageFlip ==
    IF m_ImgPierside # "PIER_UNKNOWN"
    THEN IF (~m_flippedMount) # (m_ImgPierside = m_CalPierside) THEN TRUE ELSE FALSE
    ELSE FALSE

\* faulty variant: the wrapped difference keeps its sign
DiffPA_Signed(diff) == IF diff > HalfCircle THEN diff - FullCircle ELSE diff

DiffPA(diff) == IF diff > HalfCircle THEN FullCircle - diff ELSE diff

\* faulty variant: the flag is computed from the side handled before
flippedBy_Previous(Side) == (lastSide # m_CalPierside)

\* the assignment made by the pierSideChanged handler
flippedBy(Side) == (Side # m_CalPierside)

---------------------------------------------------------------------------
(* RotatorUtils: the operations *)

NoCalib == [stage |-> "none", A |-> 0, PA |-> 0, o |-> 0]

Record(op, a, b, side, fi, ret, bret) ==
    [op |-> op, a |-> a, b |-> b, side |-> side, fi |-> fi,
     ret |-> ret, bret |-> bret, flip |-> m_flippedMount]

ConstructorState ==
    /\ m_Offset \in Offsets
    /\ m_flippedMount \in BOOLEAN
    /\ m_CalPierside \in PierSides
    /\ m_ImgPierside \in PierSides
    /\ connected = FALSE
    /\ pAOffset \in Offsets
    /\ pending = <<>>
    /\ lastSide = "none"
    /\ call = [op |-> "constructor", a |-> 0, b |-> 0, side |-> "PIER_UNKNOWN",
               fi |-> FALSE, ret |-> 0, bret |-> FALSE, flip |-> FALSE]
    /\ calib = NoCalib

initRotatorUtils(mount) ==
    /\ m_Offset' = pAOffset
    /\ connected' = (connected \/ mount # "null")
    /\ call' = Record("initRotatorUtils", 0, 0, "PIER_UNKNOWN", FALSE, 0, FALSE)
    /\ calib' = IF pAOffset = m_Offset THEN calib ELSE NoCalib
    /\ UNCHANGED <<m_flippedMount, m_CalPierside, m_ImgPierside, pAOffset,
                   pending, lastSide, pin, pcall>>

\* the mount emits pierSideChanged(Side) to the handler connected in
\* initRotatorUtils
emitPierSideChanged(Side) ==
    /\ connected
    /\ Len(pending) < MaxPending
    /\ pending' = Append(pending, Side)
    /\ UNCHANGED <<m_Offset, m_flippedMount, m_CalPierside, m_ImgPierside,
                   connected, pAOffset, lastSide, call, calib, pin, pcall>>

\* the handler runs on the oldest signal emitted
pierSideChanged ==
    /\ pending # <<>>
    /\ pending' = Tail(pending)
    /\ m_flippedMount' = flippedBy(Head(pending))
    /\ lastSide' = Head(pending)
    /\ call' = [Record("pierSideChanged", 0, 0, Head(pending), FALSE, 0, FALSE)
                   EXCEPT !.flip = flippedBy(Head(pending))]
    /\ calib' = NoCalib
    /\ UNCHANGED <<m_Offset, m_CalPierside, m_ImgPierside, connected,
                   pAOffset, pin, pcall>>

Call_calcRotatorAngle(PositionAngle) ==
    /\ call' = Record("calcRotatorAngle", PositionAngle, 0, "PIER_UNKNOWN", FALSE,
                      calcRotatorAngle(PositionAngle), FALSE)
    /\ UNCHANGED <<m_Offset, m_flippedMount, m_CalPierside, m_ImgPierside,
                   connected, pAOffset, pending, lastSide, calib, pin, pcall>>

Call_calcCameraAngle(RotatorAngle, flippedImage) ==
    /\ call' = Record("calcCameraAngle", RotatorAngle, 0, "PIER_UNKNOWN",
                      flippedImage, calcCameraAngle(RotatorAngle, flippedImage), FALSE)
    /\ UNCHANGED <<m_Offset, m_flippedMount, m_CalPierside, m_ImgPierside,
                   connected, pAOffset, pending, lastSide, calib, pin, pcall>>

Call_calcOffsetAngle(RotatorAngle, PositionAngle) ==
    /\ call' = Record("calcOffsetAngle", RotatorAngle, PositionAngle, "PIER_UNKNOWN",
                      FALSE, calcOffsetAngle(RotatorAngle, PositionAngle), FALSE)
    /\ UNCHANGED <<m_Offset, m_flippedMount, m_CalPierside, m_ImgPierside,
                   connected, pAOffset, pending, lastSide, calib, pin, pcall>>

updateOffset(Angle) ==
    /\ m_Offset' = Angle
    /\ pAOffset' = Angle
    /\ calib' = IF call.op = "calcOffsetAngle" /\ call.ret = Angle
                THEN [stage |-> "stored", A |-> call.a, PA |-> call.b, o |-> Angle]
                ELSE NoCalib
    /\ call' = Record("updateOffset", Angle, 0, "PIER_UNKNOWN", FALSE, 0, FALSE)
    /\ UNCHANGED <<m_flippedMount, m_CalPierside, m_ImgPierside,
                   connected, pending, lastSide, pin, pcall>>

\* faulty variant: the flip flag is recomputed from the image pier side
setImagePierside_Reflip(ImgPierside) ==
    /\ m_ImgPierside' = ImgPierside
    /\ m_flippedMount' = (ImgPierside # m_CalPierside)
    /\ call' = Record("setImagePierside", 0, 0, ImgPierside, FALSE, 0, FALSE)
    /\ UNCHANGED <<m_Offset, m_CalPierside, connected,
                   pAOffset, pending, lastSide, calib, pin, pcall>>

setImagePierside(ImgPierside) ==
    /\ m_ImgPierside' = ImgPierside
    /\ call' = Record("setImagePierside", 0, 0, ImgPierside, FALSE, 0, FALSE)
    /\ UNCHANGED <<m_Offset, m_flippedMount, m_CalPierside, connected,
                   pAOffset, pending, lastSide, calib, pin, pcall>>

Call_checkImageFlip ==
    /\ call' = Record("checkImageFlip", 0, 0, "PIER_UNKNOWN", FALSE, 0, checkImageFlip)
    /\ UNCHANGED <<m_Offset, m_flippedMount, m_CalPierside, m_ImgPierside,
                   connected, pAOffset, pending, lastSide, calib, pin, pcall>>

Call_DiffPA(diff) ==
    /\ call' = Record("DiffPA", diff, 0, "PIER_UNKNOWN", FALSE, DiffPA(diff), FALSE)
    /\ UNCHANGED <<m_Offset, m_flippedMount, m_CalPierside, m_ImgPierside,
                   connected, pAOffset, pending, lastSide, calib, pin, pcall>>

\* a position angle a caller passes: one of the set, or the one just computed
GivenPositionAngles ==
    PositionAngles \cup (IF call.op = "calcCameraAngle" THEN {call.ret} ELSE {})

\* an offset a caller stores: one of the set, or the one just computed
GivenOffsets ==
    Offsets \cup (IF call.op = "calcOffsetAngle" THEN {call.ret} ELSE {})

---------------------------------------------------------------------------
(* PoleAxis *)

\* PoleAxis::V3: the vector (x, y, z) / sqrt(len2); len2 = 1 for a vector
\* given by its components
V3(x, y, z) == [x |-> x, y |-> y, z |-> z, len2 |-> 1]

V3Zero == V3(0, 0, 0)

Coords == (0 - 1)..MaxCoord

Vectors == {V3(x, y, z) : x \in Coords, y \in Coords, z \in Coords}

\* hour angles and declinations whose sine and cosine are integers
Primaries == {0, 90, 180, 270}

Secondaries == {-90, 0, 90}

SkyPoints == [ra : Primaries, dec : Secondaries]

CosDeg(d) == CASE d % 360 = 0 -> 1 [] d % 360 = 180 -> 0 - 1 [] OTHER -> 0

SinDeg(d) == CASE d % 360 = 90 -> 1 [] d % 360 = 270 -> 0 - 1 [] OTHER -> 0

\* faulty variant: the normal is turned to the northern half space
normal_North(v1, v2, v3) ==
    LET d21 == V3(v2.x - v1.x, v2.y - v1.y, v2.z - v1.z)
        d31 == V3(v3.x - v2.x, v3.y - v2.y, v3.z - v2.z)
        cross == V3(d21.y * d31.z - d21.z * d31.y,
                    d21.z * d31.x - d21.x * d31.z,
                    d21.x * d31.y - d21.y * d31.x)
        lenSq == cross.x * cross.x + cross.y * cross.y + cross.z * cross.z
    IN  IF lenSq = 0 THEN V3Zero
        ELSE IF cross.z < 0
             THEN [x |-> 0 - cross.x, y |-> 0 - cross.y, z |-> 0 - cross.z, len2 |-> lenSq]
             ELSE [x |-> cross.x, y |-> cross.y, z |-> cross.z, len2 |-> lenSq]

\* faulty variant: the squared length leaves out the z component
normal_LenXY(v1, v2, v3) ==
    LET d21 == V3(v2.x - v1.x, v2.y - v1.y, v2.z - v1.z)
        d31 == V3(v3.x - v2.x, v3.y - v2.y, v3.z - v2.z)
        cross == V3(d21.y * d31.z - d21.z * d31.y,
                    d21.z * d31.x - d21.x * d31.z,
                    d21.x * d31.y - d21.y * d31.x)
        lenSq == cross.x * cross.x + cross.y * cross.y
    IN  IF lenSq = 0 THEN V3Zero
        ELSE [x |-> cross.x, y |-> cross.y, z |-> cross.z, len2 |-> lenSq]

\* PoleAxis::V3::normal; the quotient cross / sqrt(lenSq) is kept as
\* (cross, lenSq)
normal(v1, v2, v3) ==
    LET d21 == V3(v2.x - v1.x, v2.y - v1.y, v2.z - v1.z)
        d31 == V3(v3.x - v2.x, v3.y - v2.y, v3.z - v2.z)
        cross == V3(d21.y * d31.z - d21.z * d31.y,
                    d21.z * d31.x - d21.x * d31.z,
                    d21.x * d31.y - d21.y * d31.x)
        lenSq == cross.x * cross.x + cross.y * cross.y + cross.z * cross.z
    IN  IF lenSq = 0 THEN V3Zero
        ELSE [x |-> cross.x, y |-> cross.y, z |-> cross.z, len2 |-> lenSq]

dirCos(primary, secondary) ==
    V3(CosDeg(secondary) * CosDeg(primary),
       CosDeg(secondary) * SinDeg(primary),
       SinDeg(secondary))

dirCosSkyPoint(sp) == dirCos(sp.ra, sp.dec)

\* faulty variant: the commented-out selection of the north pole is active
poleAxis_North(p1, p2, p3) ==
    LET p == normal(dirCosSkyPoint(p1), dirCosSkyPoint(p2), dirCosSkyPoint(p3))
    IN  IF p.z < 0
        THEN [x |-> 0 - p.x, y |-> 0 - p.y, z |-> 0 - p.z, len2 |-> p.len2]
        ELSE p

poleAxis(p1, p2, p3) ==
    LET v1 == dirCosSkyPoint(p1)
        v2 == dirCosSkyPoint(p2)
        v3 == dirCosSkyPoint(p3)
    IN  normal(v1, v2, v3)

Call_normal ==
    /\ pin.kind = "vectors"
    /\ pcall' = [op |-> "normal", in |-> pin.in,
                 ret |-> normal(pin.in[1], pin.in[2], pin.in[3])]
    /\ UNCHANGED <<m_Offset, m_flippedMount, m_CalPierside, m_ImgPierside,
                   connected, pAOffset, pending, lastSide, call, calib, pin>>

Call_poleAxis ==
    /\ pin.kind = "points"
    /\ pcall' = [op |-> "poleAxis", in |-> pin.in,
                 ret |-> poleAxis(pin.in[1], pin.in[2], pin.in[3])]
    /\ UNCHANGED <<m_Offset, m_flippedMount, m_CalPierside, m_ImgPierside,
                   connected, pAOffset, pending, lastSide, call, calib, pin>>

NoPoleArgs == [kind |-> "none", in |-> <<>>]

NoPoleCall == [op |-> "none", in |-> <<>>, ret |-> V3Zero]

Init ==
    /\ ConstructorState
    /\ pin = NoPoleArgs
    /\ pcall = NoPoleCall

Next ==
    \/ \E mount \in {"null", "mount"} : initRotatorUtils(mount)
    \/ \E Side \in PierSides : emitPierSideChanged(Side)
    \/ pierSideChanged
    \/ \E pa \in GivenPositionAngles : Call_calcRotatorAngle(pa)
    \/ \E a \in RotatorAngles, fi \in BOOLEAN : Call_calcCameraAngle(a, fi)
    \/ \E a \in InRange, pa \in PositionAngles : Call_calcOffsetAngle(a, pa)
    \/ \E o \in GivenOffsets : updateOffset(o)
    \/ \E s \in PierSides : setImagePierside(s)
    \/ Call_checkImageFlip
    \/ \E d \in Diffs : Call_DiffPA(d)

Spec == Init /\ [][Next]_vars

\* PoleAxis alone: the caller holds three vectors or three sky points, and no
\* RotatorUtils object is in use
InitPole ==
    /\ m_Offset = 0
    /\ m_flippedMount = FALSE
    /\ m_CalPierside = "PIER_UNKNOWN"
    /\ m_ImgPierside = "PIER_UNKNOWN"
    /\ connected = FALSE
    /\ pAOffset = 0
    /\ pending = <<>>
    /\ lastSide = "none"
    /\ call = [op |-> "constructor", a |-> 0, b |-> 0, side |-> "PIER_UNKNOWN",
               fi |-> FALSE, ret |-> 0, bret |-> FALSE, flip |-> FALSE]
    /\ calib = NoCalib
    /\ pin \in ([kind : {"vectors"}, in : Vectors \X Vectors \X Vectors]
                 \cup [kind : {"points"}, in : SkyPoints \X SkyPoints \X SkyPoints])
    /\ pcall = NoPoleCall

NextPole ==
    \/ Call_normal
    \/ Call_poleAxis

SpecPole == InitPole /\ [][NextPole]_vars

---------------------------------------------------------------------------
(* Properties *)

\* rotator angles of [0,360) the properties are evaluated on: the quadrants
\* and the neighbours of the fold at 180 and of the wrap at 360
CircularAngles == {0, 1, 90, 179, 180, 181, 200, 270, 359}

\* rotator angles in and out of [0,360)
AnyAngles ==
    CircularAngles \cup
    {a + FullCircle * k : a \in {0, 180, 181, 359}, k \in {0 - MaxTurns, MaxTurns}}

ConversionOps ==
    {"calcRotatorAngle", "calcCameraAngle", "calcOffsetAngle", "checkImageFlip"}

Xor(p, q) == (p /\ ~q) \/ (~p /\ q)

\* C1: in every state (any stored offset, either value of the flip flag), for
\* every rotator angle A of [0,360), converting A to a camera angle with the
\* image-flip flag false and converting that back gives A; and a
\* calcRotatorAngle call made on such a camera angle has returned A.
C1_RoundTrip ==
    /\ \A A \in CircularAngles :
          calcRotatorAngle(calcCameraAngle(A, FALSE)) = A
    /\ call.op = "calcRotatorAngle" =>
          \A A \in CircularAngles :
             call.a = calcCameraAngle(A, FALSE) => call.ret = A

C1_Witness ==
    /\ call.op = "calcRotatorAngle"
    /\ m_flippedMount
    /\ call.a = calcCameraAngle(200, FALSE)
    /\ call.ret = 200

\* C2: once the offset computed by calcOffsetAngle(A, PA) has been stored by
\* updateOffset and no pier-side notification has been handled since,
\* calcCameraAngle(A, false) returns exactly PA (A in [0,360), PA in
\* (-180,180], either value of the flip flag).
C2_Calibration ==
    calib.stage = "stored" =>
        /\ calcCameraAngle(calib.A, FALSE) = calib.PA
        /\ (call.op = "calcCameraAngle" /\ call.a = calib.A /\ ~call.fi)
              => call.ret = calib.PA

C2_Witness ==
    /\ calib.stage = "stored"
    /\ m_flippedMount
    /\ calib.A = 200
    /\ call.op = "calcCameraAngle"
    /\ call.a = calib.A
    /\ ~call.fi
    /\ call.ret = calib.PA

\* C3 as stated: checkImageFlip returns true exactly when the calibration pier
\* side is known and mountFlipped XOR (image pier side = calibration pier side).
C3_AsStated ==
    call.op = "checkImageFlip" =>
        (call.bret <=>
            (m_CalPierside # "PIER_UNKNOWN"
             /\ Xor(m_flippedMount, m_ImgPierside = m_CalPierside)))

\* C3 amended: checkImageFlip returns true exactly when the stored image pier
\* side is known (not PIER_UNKNOWN) and (not mountFlipped) XOR (image pier side
\* = calibration pier side), that is when mountFlipped equals (image pier side
\* = calibration pier side); it returns false in every other combination.
C3_ImageFlip ==
    /\ checkImageFlip <=>
          (m_ImgPierside # "PIER_UNKNOWN"
           /\ (m_flippedMount <=> (m_ImgPierside = m_CalPierside)))
    /\ call.op = "checkImageFlip" =>
          (call.bret <=>
              (m_ImgPierside # "PIER_UNKNOWN"
               /\ Xor(~m_flippedMount, m_ImgPierside = m_CalPierside)))

C3_Witness ==
    /\ call.op = "checkImageFlip"
    /\ call.bret
    /\ m_flippedMount
    /\ lastSide # "none"
    /\ m_ImgPierside = m_CalPierside

\* C4: for every rotator angle, in [0,360) or not, every stored offset and
\* every combination of the flip flag and flippedImage, calcCameraAngle returns
\* a value of (-180,180] congruent modulo 360 to rotatorAngle + offset, plus
\* 180 exactly when mountFlipped XOR flippedImage; offset 10, not flipped,
\* flippedImage false, rotator angle 200 gives -150.
C4_CameraAngle ==
    /\ \A A \in AnyAngles \cup RotatorAngles, fi \in BOOLEAN :
          LET r == calcCameraAngle(A, fi)
              t == A + m_Offset + (IF Xor(m_flippedMount, fi) THEN HalfCircle ELSE 0)
          IN  /\ r > 0 - HalfCircle
              /\ r <= HalfCircle
              /\ (r - t) % FullCircle = 0
    /\ (m_Offset = 10 /\ ~m_flippedMount) => calcCameraAngle(200, FALSE) = -150
    /\ call.op = "calcCameraAngle" =>
          /\ call.ret > 0 - HalfCircle
          /\ call.ret <= HalfCircle
          /\ (call.ret - (call.a + m_Offset
                + (IF Xor(m_flippedMount, call.fi) THEN HalfCircle ELSE 0)))
                % FullCircle = 0

C4_Witness ==
    /\ call.op = "calcCameraAngle"
    /\ m_Offset = 10
    /\ ~m_flippedMount
    /\ call.a = 200
    /\ ~call.fi
    /\ call.ret = -150

\* C5: in every step, the flip flag changes only when the pierSideChanged
\* handler runs; calcRotatorAngle, calcCameraAngle, calcOffsetAngle,
\* updateOffset, setImagePierside, checkImageFlip and DiffPA leave it
\* unchanged, and of these only updateOffset changes the stored offset.
C5_Frame ==
    [][/\ (m_flippedMount' # m_flippedMount) => call'.op = "pierSideChanged"
       /\ call'.op \in {"calcRotatorAngle", "calcCameraAngle", "calcOffsetAngle",
                        "updateOffset", "setImagePierside", "checkImageFlip",
                        "DiffPA"}
             => /\ m_flippedMount' = m_flippedMount
                /\ (m_Offset' # m_Offset) => call'.op = "updateOffset"]_vars

C5_Witness ==
    /\ call.op = "setImagePierside"
    /\ lastSide # "none"
    /\ m_flippedMount
    /\ calib.stage = "stored"

\* C6: a conversion call (calcRotatorAngle, calcCameraAngle, calcOffsetAngle,
\* checkImageFlip) made after a notification has been handled reads the flag
\* the notification handled last has set: mountFlipped = (the pier side it
\* reported # the calibration pier side), whatever signals are still in flight.
C6_LatestFlag ==
    (lastSide # "none" /\ call.op \in ConversionOps) =>
        call.flip = (lastSide # m_CalPierside)

C6_Witness ==
    /\ call.op = "calcCameraAngle"
    /\ lastSide = m_CalPierside
    /\ ~call.flip
    /\ pending # <<>>
    /\ Head(pending) # lastSide

\* C10: for every difference d of [0,360), DiffPA(d) is d when d <= 180 and
\* 360 - d otherwise, lies in [0,180] and is the smaller of d and 360 - d;
\* 0 -> 0, 180 -> 180, 270 -> 90, 359 -> 1.
C10_DiffPA ==
    /\ \A d \in CircularAngles \cup Diffs :
          LET r == DiffPA(d)
          IN  /\ r = (IF d <= HalfCircle THEN d ELSE FullCircle - d)
              /\ r >= 0
              /\ r <= HalfCircle
              /\ r <= d
              /\ r <= FullCircle - d
              /\ r \in {d, FullCircle - d}
    /\ call.op = "DiffPA" =>
          /\ call.a = 0 => call.ret = 0
          /\ call.a = 180 => call.ret = 180
          /\ call.a = 270 => call.ret = 90
          /\ call.a = 359 => call.ret = 1

C10_Witness ==
    /\ call.op = "DiffPA"
    /\ call.a = 270
    /\ call.ret = 90

IsZero(v) == v.x = 0 /\ v.y = 0 /\ v.z = 0

Neg(v) == [x |-> 0 - v.x, y |-> 0 - v.y, z |-> 0 - v.z, len2 |-> v.len2]

Sub(a, b) == V3(a.x - b.x, a.y - b.y, a.z - b.z)

Cross(a, b) ==
    V3(a.y * b.z - a.z * b.y, a.z * b.x - a.x * b.z, a.x * b.y - a.y * b.x)

Dot(a, b) == a.x * b.x + a.y * b.y + a.z * b.z

\* the vector (x, y, z) / sqrt(len2) has magnitude 1
UnitMagnitude(v) == Dot(v, v) = v.len2

\* C7: normal returns the zero vector exactly when (v2-v1) x (v3-v2) is zero,
\* which is when the three points are collinear or two of them coincide; for
\* every other triple it returns a non-zero vector parallel to that cross
\* product, of magnitude 1.
C7_Normal ==
    pcall.op = "normal" =>
        LET v1 == pcall.in[1]
            v2 == pcall.in[2]
            v3 == pcall.in[3]
            c  == Cross(Sub(v2, v1), Sub(v3, v2))
            collinear == IsZero(Cross(Sub(v2, v1), Sub(v3, v1)))
        IN  /\ IsZero(pcall.ret) <=> IsZero(c)
            /\ IsZero(c) <=> collinear
            /\ (v1 = v2 \/ v2 = v3 \/ v1 = v3) => IsZero(pcall.ret)
            /\ ~IsZero(c) =>
                  /\ IsZero(Cross(pcall.ret, c))
                  /\ Dot(pcall.ret, c) > 0
                  /\ UnitMagnitude(pcall.ret)

C7_Witness ==
    /\ pcall.op = "normal"
    /\ ~IsZero(pcall.ret)
    /\ pcall.ret.x # 0
    /\ pcall.ret.z < 0
    /\ pcall.ret.len2 = 3

\* C8: normal(v3, v2, v1) is the component-wise negation of normal(v1, v2, v3),
\* both being the zero vector in the degenerate case.
C8_Reversal ==
    pcall.op = "normal" =>
        /\ normal(pcall.in[3], pcall.in[2], pcall.in[1]) = Neg(pcall.ret)
        /\ IsZero(pcall.ret) =>
              IsZero(normal(pcall.in[3], pcall.in[2], pcall.in[1]))

C8_Witness ==
    /\ pcall.op = "normal"
    /\ pcall.ret.z < 0
    /\ normal(pcall.in[3], pcall.in[2], pcall.in[1]).z > 0

Equator(ra) == [ra |-> ra, dec |-> 0]

\* C9: poleAxis(p1, p2, p3) is normal(dirCos(p1), dirCos(p2), dirCos(p3)) with
\* the sign as computed: the equator points at primary 0, 90, 180 give an axis
\* of magnitude 1 along (0,0,+-1), and the same points in reversed order give
\* the opposite pole.
C9_PoleAxis ==
    pcall.op = "poleAxis" =>
        LET p1 == pcall.in[1]
            p2 == pcall.in[2]
            p3 == pcall.in[3]
        IN  /\ pcall.ret = normal(dirCos(p1.ra, p1.dec), dirCos(p2.ra, p2.dec),
                                  dirCos(p3.ra, p3.dec))
            /\ poleAxis(p3, p2, p1) = Neg(pcall.ret)
            /\ pcall.in = <<Equator(0), Equator(90), Equator(180)>> =>
                  /\ pcall.ret.x = 0
                  /\ pcall.ret.y = 0
                  /\ pcall.ret.z > 0
                  /\ UnitMagnitude(pcall.ret)
            /\ pcall.in = <<Equator(180), Equator(90), Equator(0)>> =>
                  /\ pcall.ret.x = 0
                  /\ pcall.ret.y = 0
                  /\ pcall.ret.z < 0
                  /\ UnitMagnitude(pcall.ret)

C9_Witness ==
    /\ pcall.op = "poleAxis"
    /\ pcall.in = <<Equator(180), Equator(90), Equator(0)>>
    /\ pcall.ret.z < 0
    /\ UnitMagnitude(pcall.ret)

==========================================================================
